---- MODULE Spec2Model ----
(***************************************************************************)
(* The concurrent store of main-server/store/store.go: users, their        *)
(* monitor sets, the per-server reference counts (allServers), the         *)
(* per-server/per-location ping histories (servers), the two notification  *)
(* channels, and the Close / do guard.                                     *)
(*                                                                         *)
(* Spec        runs the handlers one at a time, each as one step.          *)
(* SpecDurable is Spec with the engine's successful writes kept as state.  *)
(* SpecConc    runs them as goroutines, one step per synchronisation point *)
(*             (the isClosed test of do, acquire, the lock, the body, the  *)
(*             unlock, release), against a concurrent Close.               *)
(* SpecLive    is the goroutines and Close under a fair scheduler.         *)
(* SpecBind    runs SetStoreEngine push by push on large snapshots.        *)
(* SpecStall   runs subscriptions on a store whose channels nobody drains. *)
(***************************************************************************)
EXTENDS Integers, Sequences, FiniteSets, TLC

(* ------------------------------ bounds -------------------------------- *)

\* number of calls and channel receives explored in one behaviour of Spec
MaxOps == 4
\* number of calls (Close included) explored in one behaviour of SpecConc
MaxConcOps == 3
\* number of servers in the largest snapshot a store is bound to
MaxLoaded == 1025

Usernames == {"alice", "bob"}
Passwords == {"pw1", "pw2"}
ServerNames == {"srv1", "srv2"}
Locations == {"eu", "us"}
Times == {"t1", "t2"}
Pings == {"10"}
Procs == {"p1", "p2"}
\* the goroutine that issues the calls of a sequential run
SeqProcs == {"p1"}

(* ------------------------- program constants -------------------------- *)

_MIN_LEN_SERVER_CHAN == 1024
_DEFAULT_PING == "0.000"
_ERROR_INCORRECT_PASSWORD == "incorrect password"
\* the fmt.Errorf results of the handlers, by their format strings
ErrUserAlreadyExist == "User %v already exist"
ErrUserNotExistDel == "user %v not exist"
ErrUserNotExistAdd == "User %v not exist"
ErrAlreadyMonitoring == "%v is already in monitoring list"
ErrServerNotExist == "server %v is not exist"
\* an error returned by StoreEngine.WriteUser / BatchWritePingRets
ErrEngine == "engine write error"
nil == "nil"
EngineResults == {nil, ErrEngine}

(* ------------------------------- state -------------------------------- *)

VARIABLES
    users,          \* Store.users: username -> User
    servers,        \* Store.servers: server -> location -> sequence of PingRet
    allServers,     \* Store.allServers: server -> reference count
    AddServerChan,  \* Store.AddServerChan: buffered channel, as its queue
    KickServerChan, \* Store.KickServerChan
    chanCap,        \* capacity both channels were made with
    closeCounter,   \* *Store.closeCounter
    isClosed,       \* Store.isClosed
    err,            \* per goroutine: the named result err of its latest call
    engineLog,      \* per goroutine: engine calls made by its latest call
    engineRet,      \* per goroutine: what the engine returned to that call
    durable,        \* what the engine has written successfully, when the
                    \* run keeps track of it
    pc,             \* per goroutine: where it is in its call
    call,           \* per goroutine: the handler it is in and its arguments
    rwl,            \* Store.rwl: the writer holding it, the readers holding it
    closerPc,       \* where the goroutine calling Close is
    closeReturned,  \* history: a call of Close has returned
    afterClose,     \* history: per goroutine, its call was made after that
    tmp,            \* per goroutine: the locals of its body between steps
    pushBalance,    \* history: per server, pushes to AddServerChan minus
                    \* pushes to KickServerChan (seeding included)
    nops            \* number of calls and channel receives so far

vars == <<users, servers, allServers, AddServerChan, KickServerChan, chanCap,
          closeCounter, isClosed, err, engineLog, engineRet, durable, pc,
          call, rwl, closerPc, closeReturned, afterClose, tmp, pushBalance,
          nops>>

\* what only the goroutines of SpecConc change
concVars == <<rwl, closerPc, afterClose, tmp>>

NoCall == [op |-> "none"]
\* the locals of a body that has not assigned any
NoLocals == [count |-> 0, maxLength |-> 0, maxLocation |-> "", padPrs |-> <<>>]
\* the value of durable in a run that does not keep track of the engine
NotTracked == [tracked |-> FALSE, users |-> <<>>, servers |-> <<>>]
None == "none"

(* --------------------------- Go map helpers --------------------------- *)

\* m[k] = v
Put(m, k, v) == [x \in (DOMAIN m) \cup {k} |-> IF x = k THEN v ELSE m[x]]

\* delete(m, k)
Del(m, k) == [x \in (DOMAIN m) \ {k} |-> m[x]]

\* m[k] of a map[string]int64: the zero value when k is absent
Get(m, k) == IF k \in DOMAIN m THEN m[k] ELSE 0

EmptyMap == [x \in {} |-> 0]

\* the orders in which a range loop may visit the keys S
Orders(S) == {o \in [1..Cardinality(S) -> S] : {o[i] : i \in 1..Cardinality(S)} = S}

\* number of users whose MonitorServers contains s
RefCount(us, s) == Cardinality({u \in DOMAIN us : s \in us[u].MonitorServers})

(* ------------------------------ records ------------------------------- *)

PingRet(t, p) == [Time |-> t, Ping |-> p]

defaultPingRet(t) == PingRet(t, _DEFAULT_PING)

newUser == [Password |-> "", MonitorServers |-> {}]

WriteUserCall(username, u) == [op |-> "WriteUser", username |-> username, user |-> u]

BatchWriteCall(server, location, prs) ==
    [op |-> "BatchWritePingRets", server |-> server, location |-> location, prs |-> prs]

\* the calls of the handlers
UpdatePasswordCall(username, oldpassword, newpassword) ==
    [op |-> "UpdatePassword", username |-> username,
     oldpassword |-> oldpassword, newpassword |-> newpassword]

AddUserCall(username, password) ==
    [op |-> "AddUser", username |-> username, password |-> password]

DeleteMonitorServerCall(username, server) ==
    [op |-> "DeleteMonitorServer", username |-> username, server |-> server]

AddMonitorServerCall(username, server) ==
    [op |-> "AddMonitorServer", username |-> username, server |-> server]

AppendPingRetCall(server, location, pr) ==
    [op |-> "AppendPingRet", server |-> server, location |-> location, pr |-> pr]

\* what a handler body leaves behind: the three maps, the pushes it made on
\* each channel, the engine calls it made, and its named result err
Outcome(us, sv, al, add, kick, calls, e) ==
    [users |-> us, servers |-> sv, allServers |-> al,
     add |-> add, kick |-> kick, calls |-> calls, err |-> e]

\* a body that returns before touching anything
Untouched(us, sv, al, e) == Outcome(us, sv, al, <<>>, <<>>, <<>>, e)

(* --------------------------- handler bodies --------------------------- *)
(* Each body is the closure a handler passes to do(): a function of the   *)
(* maps, the arguments and the result werr of its engine write.           *)

UpdatePasswordBody(us, sv, al, username, oldpassword, newpassword, werr) ==
    IF username \notin DOMAIN us
    THEN Untouched(us, sv, al, nil)
    ELSE IF us[username].Password # oldpassword
    THEN Untouched(us, sv, al, _ERROR_INCORRECT_PASSWORD)
    ELSE LET u == [us[username] EXCEPT !.Password = newpassword]
         IN Outcome([us EXCEPT ![username] = u], sv, al, <<>>, <<>>,
                    <<WriteUserCall(username, u)>>, werr)

\* mutant: the duplicate test is missing, the user is overwritten
AddUserBodyOverwrite(us, sv, al, username, password, werr) ==
    LET u == [newUser EXCEPT !.Password = password]
    IN Outcome(Put(us, username, u), sv, al, <<>>, <<>>,
               <<WriteUserCall(username, u)>>, werr)

AddUserBody(us, sv, al, username, password, werr) ==
    IF username \in DOMAIN us
    THEN Untouched(us, sv, al, ErrUserAlreadyExist)
    ELSE LET u == [newUser EXCEPT !.Password = password]
         IN Outcome(Put(us, username, u), sv, al, <<>>, <<>>,
                    <<WriteUserCall(username, u)>>, werr)

\* mutant: the samples of a server are dropped with its last monitor
DeleteMonitorServerBodyDrop(us, sv, al, username, server, werr) ==
    IF username \notin DOMAIN us
    THEN Untouched(us, sv, al, ErrUserNotExistDel)
    ELSE LET monitored == server \in us[username].MonitorServers
             u == IF monitored
                  THEN [us[username] EXCEPT !.MonitorServers = @ \ {server}]
                  ELSE us[username]
             al1 == IF monitored THEN Put(al, server, Get(al, server) - 1) ELSE al
             kicked == Get(al1, server) <= 0
         IN Outcome([us EXCEPT ![username] = u],
                    IF kicked THEN Del(sv, server) ELSE sv,
                    IF kicked THEN Del(al1, server) ELSE al1,
                    <<>>,
                    IF kicked THEN <<server>> ELSE <<>>,
                    <<WriteUserCall(username, u)>>, werr)

DeleteMonitorServerBody(us, sv, al, username, server, werr) ==
    IF username \notin DOMAIN us
    THEN Untouched(us, sv, al, ErrUserNotExistDel)
    ELSE LET monitored == server \in us[username].MonitorServers
             u == IF monitored
                  THEN [us[username] EXCEPT !.MonitorServers = @ \ {server}]
                  ELSE us[username]
             al1 == IF monitored THEN Put(al, server, Get(al, server) - 1) ELSE al
             kicked == Get(al1, server) <= 0
         IN Outcome([us EXCEPT ![username] = u], sv,
                    IF kicked THEN Del(al1, server) ELSE al1,
                    <<>>,
                    IF kicked THEN <<server>> ELSE <<>>,
                    <<WriteUserCall(username, u)>>, werr)

\* mutant: the reference count is not incremented for a server that has one
AddMonitorServerBodyNoCount(us, sv, al, username, server, werr) ==
    IF username \notin DOMAIN us
    THEN Untouched(us, sv, al, ErrUserNotExistAdd)
    ELSE IF server \in us[username].MonitorServers
    THEN Untouched(us, sv, al, ErrAlreadyMonitoring)
    ELSE LET u == [us[username] EXCEPT !.MonitorServers = @ \cup {server}]
         IN Outcome([us EXCEPT ![username] = u], sv,
                    IF server \in DOMAIN al THEN al ELSE Put(al, server, 1),
                    IF server \notin DOMAIN al THEN <<server>> ELSE <<>>,
                    <<>>,
                    <<WriteUserCall(username, u)>>, werr)

\* mutant: the server is pushed whether or not it has an entry
AddMonitorServerBodyAlwaysPush(us, sv, al, username, server, werr) ==
    IF username \notin DOMAIN us
    THEN Untouched(us, sv, al, ErrUserNotExistAdd)
    ELSE IF server \in us[username].MonitorServers
    THEN Untouched(us, sv, al, ErrAlreadyMonitoring)
    ELSE LET u == [us[username] EXCEPT !.MonitorServers = @ \cup {server}]
         IN Outcome([us EXCEPT ![username] = u], sv,
                    Put(al, server, Get(al, server) + 1),
                    <<server>>,
                    <<>>,
                    <<WriteUserCall(username, u)>>, werr)

AddMonitorServerBody(us, sv, al, username, server, werr) ==
    IF username \notin DOMAIN us
    THEN Untouched(us, sv, al, ErrUserNotExistAdd)
    ELSE IF server \in us[username].MonitorServers
    THEN Untouched(us, sv, al, ErrAlreadyMonitoring)
    ELSE LET u == [us[username] EXCEPT !.MonitorServers = @ \cup {server}]
         IN Outcome([us EXCEPT ![username] = u], sv,
                    Put(al, server, Get(al, server) + 1),
                    IF server \notin DOMAIN al THEN <<server>> ELSE <<>>,
                    <<>>,
                    <<WriteUserCall(username, u)>>, werr)

\* mutant: the comparison of the loop is turned around
RECURSIVE FindMaxLess(_, _, _, _)
FindMaxLess(locs, order, maxLength, maxLocation) ==
    IF order = <<>>
    THEN [maxLength |-> maxLength, maxLocation |-> maxLocation]
    ELSE LET loc == Head(order)
         IN IF Len(locs[loc]) < maxLength
            THEN FindMaxLess(locs, Tail(order), Len(locs[loc]), loc)
            ELSE FindMaxLess(locs, Tail(order), maxLength, maxLocation)

\* the "find the max" loop over s.servers[server], visiting the keys in order
RECURSIVE FindMax(_, _, _, _)
FindMax(locs, order, maxLength, maxLocation) ==
    IF order = <<>>
    THEN [maxLength |-> maxLength, maxLocation |-> maxLocation]
    ELSE LET loc == Head(order)
         IN IF Len(locs[loc]) > maxLength
            THEN FindMax(locs, Tail(order), Len(locs[loc]), loc)
            ELSE FindMax(locs, Tail(order), maxLength, maxLocation)

\* mutant: maxLength is not decremented when the last Time is pr.Time
PadPrsNoDecrement(locs, location, pr, maxLength, maxLocation) ==
    IF maxLength # 0
    THEN LET oldLen == Len(locs[location])
         IN [i \in 1..(IF maxLength > oldLen THEN maxLength - oldLen ELSE 0) |->
                defaultPingRet(locs[maxLocation][oldLen + i].Time)] \o <<pr>>
    ELSE <<pr>>

\* padPrs: the placeholders for Go indexes len(locs[location]) .. maxLength-1
\* (decremented when maxLocation's last Time is pr.Time), then pr
PadPrs(locs, location, pr, maxLength, maxLocation) ==
    IF maxLength # 0
    THEN LET oldLen == Len(locs[location])
             m == IF locs[maxLocation][maxLength].Time = pr.Time
                  THEN maxLength - 1
                  ELSE maxLength
         IN [i \in 1..(IF m > oldLen THEN m - oldLen ELSE 0) |->
                defaultPingRet(locs[maxLocation][oldLen + i].Time)] \o <<pr>>
    ELSE <<pr>>

\* mutant: the test is allServers[server] < 0
AppendPingRetBodyNoCheck(us, sv, al, server, location, pr, order, werr) ==
    LET sv1 == IF server \in DOMAIN sv THEN sv ELSE Put(sv, server, EmptyMap)
        locs == IF location \in DOMAIN sv1[server]
                THEN sv1[server]
                ELSE Put(sv1[server], location, <<>>)
    IN Outcome(us, Put(sv1, server, Put(locs, location, locs[location] \o <<pr>>)),
               al, <<>>, <<>>,
               <<BatchWriteCall(server, location, <<pr>>)>>, werr)

\* mutant: the append is undone when the engine write fails
AppendPingRetBodyRollback(us, sv, al, server, location, pr, order, werr) ==
    IF Get(al, server) <= 0
    THEN Untouched(us, sv, al, ErrServerNotExist)
    ELSE LET sv1 == IF server \in DOMAIN sv THEN sv ELSE Put(sv, server, EmptyMap)
             locs == IF location \in DOMAIN sv1[server]
                     THEN sv1[server]
                     ELSE Put(sv1[server], location, <<>>)
             found == FindMax(locs, order, 0, "")
             padPrs == PadPrs(locs, location, pr, found.maxLength, found.maxLocation)
         IN Outcome(us,
                    IF werr = nil
                    THEN Put(sv1, server, Put(locs, location, locs[location] \o padPrs))
                    ELSE sv,
                    al, <<>>, <<>>,
                    <<BatchWriteCall(server, location, padPrs)>>, werr)

\* order: the range loop's iteration order over the locations of server
AppendPingRetBody(us, sv, al, server, location, pr, order, werr) ==
    IF Get(al, server) <= 0
    THEN Untouched(us, sv, al, ErrServerNotExist)
    ELSE LET sv1 == IF server \in DOMAIN sv THEN sv ELSE Put(sv, server, EmptyMap)
             locs == IF location \in DOMAIN sv1[server]
                     THEN sv1[server]
                     ELSE Put(sv1[server], location, <<>>)
             found == FindMax(locs, order, 0, "")
             padPrs == PadPrs(locs, location, pr, found.maxLength, found.maxLocation)
         IN Outcome(us, Put(sv1, server, Put(locs, location, locs[location] \o padPrs)),
                    al, <<>>, <<>>,
                    <<BatchWriteCall(server, location, padPrs)>>, werr)

\* the locations the range loop of AppendPingRet visits
LoopKeys(sv, server, location) ==
    (IF server \in DOMAIN sv THEN DOMAIN sv[server] ELSE {}) \cup {location}

(* ------------------------- sequential handlers ------------------------ *)

Count(q, s) == Cardinality({i \in 1..Len(q) : q[i] = s})

\* the engine's state after the calls, which it answered with werr: a
\* WriteUser that succeeds replaces the user's record, a BatchWritePingRets
\* that succeeds extends the written samples of the location
Persist(d, calls, werr) ==
    IF ~d.tracked \/ calls = <<>> \/ werr # nil
    THEN d
    ELSE LET c == calls[1]
         IN IF c.op = "WriteUser"
            THEN [d EXCEPT !.users = Put(@, c.username, c.user)]
            ELSE LET locs == IF c.server \in DOMAIN d.servers
                             THEN d.servers[c.server] ELSE EmptyMap
                     old == IF c.location \in DOMAIN locs
                            THEN locs[c.location] ELSE <<>>
                 IN [d EXCEPT !.servers =
                        Put(@, c.server, Put(locs, c.location, old \o c.prs))]

\* the caller p sees outcome r, whose engine call (if any) returned werr; a
\* push on a full channel blocks the handler
Commit(p, r, werr) ==
    /\ Len(AddServerChan) + Len(r.add) <= chanCap
    /\ Len(KickServerChan) + Len(r.kick) <= chanCap
    /\ err' = [err EXCEPT ![p] = r.err]
    /\ engineLog' = [engineLog EXCEPT ![p] = r.calls]
    /\ engineRet' = [engineRet EXCEPT ![p] = IF r.calls = <<>> THEN nil ELSE werr]
    /\ durable' = Persist(durable, r.calls, werr)
    /\ users' = r.users
    /\ servers' = r.servers
    /\ allServers' = r.allServers
    /\ AddServerChan' = AddServerChan \o r.add
    /\ KickServerChan' = KickServerChan \o r.kick
    /\ pushBalance' = [s \in ServerNames |->
                          pushBalance[s] + Count(r.add, s) - Count(r.kick, s)]

\* the call c of p run to completion through do(f): nothing when isClosed,
\* else acquire, f, release
Do(p, c, r, werr) ==
    /\ pc[p] = "idle"
    /\ nops < MaxOps
    /\ nops' = nops + 1
    /\ \E o \in {IF isClosed
                  THEN Untouched(users, servers, allServers, nil)
                  ELSE r} : Commit(p, o, werr)
    /\ pc' = [pc EXCEPT ![p] = "done"]
    /\ call' = [call EXCEPT ![p] = c]
    /\ UNCHANGED <<chanCap, closeCounter, isClosed, closeReturned>>
    /\ UNCHANGED concVars

\* the caller has its result and goes on
Return(p) ==
    /\ pc[p] = "done"
    /\ pc' = [pc EXCEPT ![p] = "idle"]
    /\ err' = [err EXCEPT ![p] = nil]
    /\ engineLog' = [engineLog EXCEPT ![p] = <<>>]
    /\ engineRet' = [engineRet EXCEPT ![p] = nil]
    /\ call' = [call EXCEPT ![p] = NoCall]
    /\ afterClose' = [afterClose EXCEPT ![p] = FALSE]
    /\ UNCHANGED <<users, servers, allServers, AddServerChan, KickServerChan,
                   chanCap, closeCounter, isClosed, durable, rwl, closerPc,
                   closeReturned, tmp, pushBalance, nops>>

UpdatePassword(p, username, oldpassword, newpassword) ==
    \E werr \in EngineResults :
        Do(p, UpdatePasswordCall(username, oldpassword, newpassword),
           UpdatePasswordBody(users, servers, allServers,
                                 username, oldpassword, newpassword, werr), werr)

AddUser(p, username, password) ==
    \E werr \in EngineResults :
        Do(p, AddUserCall(username, password),
           AddUserBody(users, servers, allServers, username, password, werr), werr)

DeleteMonitorServer(p, username, server) ==
    \E werr \in EngineResults :
        Do(p, DeleteMonitorServerCall(username, server),
           DeleteMonitorServerBody(users, servers, allServers,
                                      username, server, werr), werr)

AddMonitorServer(p, username, server) ==
    \E werr \in EngineResults :
        Do(p, AddMonitorServerCall(username, server),
           AddMonitorServerBody(users, servers, allServers,
                                   username, server, werr), werr)

AppendPingRet(p, server, location, pr) ==
    \E werr \in EngineResults :
        \E order \in Orders(LoopKeys(servers, server, location)) :
            Do(p, AppendPingRetCall(server, location, pr),
               AppendPingRetBody(users, servers, allServers,
                                    server, location, pr, order, werr), werr)

\* Close() with no call in flight: the counter is read as zero
Close ==
    /\ \A p \in Procs : pc[p] = "idle"
    /\ nops < MaxOps
    /\ nops' = nops + 1
    /\ ~(closeCounter > 0)
    /\ isClosed' = TRUE
    /\ closeReturned' = TRUE
    /\ UNCHANGED <<users, servers, allServers, AddServerChan, KickServerChan,
                   chanCap, closeCounter, err, engineLog, engineRet, durable,
                   pc, call, pushBalance>>
    /\ UNCHANGED concVars

\* the external poller pool receives from a channel
ReceiveAdd(max) ==
    /\ AddServerChan # <<>>
    /\ nops < max
    /\ nops' = nops + 1
    /\ AddServerChan' = Tail(AddServerChan)
    /\ UNCHANGED <<users, servers, allServers, KickServerChan, chanCap,
                   closeCounter, isClosed, err, engineLog, engineRet, durable,
                   pc, call, closeReturned, pushBalance>>
    /\ UNCHANGED concVars

ReceiveKick(max) ==
    /\ KickServerChan # <<>>
    /\ nops < max
    /\ nops' = nops + 1
    /\ KickServerChan' = Tail(KickServerChan)
    /\ UNCHANGED <<users, servers, allServers, AddServerChan, chanCap,
                   closeCounter, isClosed, err, engineLog, engineRet, durable,
                   pc, call, closeReturned, pushBalance>>
    /\ UNCHANGED concVars

(* ------------------------------- binding ------------------------------ *)

\* allServers as an engine derives it from the users it loaded
CountMonitors(us) ==
    [s \in UNION {us[u].MonitorServers : u \in DOMAIN us} |-> RefCount(us, s)]

User(password, monitored) == [Password |-> password, MonitorServers |-> monitored]

\* the snapshots StoreEngine.Init() returns at bind time
Snapshots ==
    { [users |-> EmptyMap, servers |-> EmptyMap],
      [users |-> [u \in {"alice"} |-> User("pw1", {"srv1"})],
       servers |-> EmptyMap],
      [users |-> [u \in {"alice", "bob"} |-> User("pw1", {})],
       servers |-> EmptyMap],
      [users |-> [u \in {"alice", "bob"} |->
                     IF u = "alice" THEN User("pw1", {"srv1"})
                                    ELSE User("pw2", {"srv1"})],
       servers |-> [s \in {"srv1"} |->
                      [l \in {"eu"} |-> <<PingRet("t1", "10")>>]]] }

\* mutant: the channels are made with the floor as their capacity
ChanLenFloor(n) == _MIN_LEN_SERVER_CHAN

\* SetStoreEngine: l, the capacity of the channels, for n loaded servers
ChanLen(n) == IF n < _MIN_LEN_SERVER_CHAN THEN _MIN_LEN_SERVER_CHAN ELSE n

\* SetStoreEngine, from its call to its return: load the snapshot, make both
\* channels, seed AddServerChan in the order seedOrder of the range loop
SetStoreEngine(snap, seedOrder) ==
    LET al == CountMonitors(snap.users)
    IN /\ users = snap.users
       /\ servers = snap.servers
       /\ allServers = al
       /\ chanCap = ChanLen(Cardinality(DOMAIN al))
       /\ AddServerChan = seedOrder
       /\ KickServerChan = <<>>
       /\ pushBalance = [s \in ServerNames |-> Count(seedOrder, s)]

\* NewStore(): the counter at zero, the flag unset, no lock held; every
\* goroutine is at the place at
NewStore(at) ==
    /\ closeCounter = 0
    /\ isClosed = FALSE
    /\ err = [p \in Procs |-> nil]
    /\ engineLog = [p \in Procs |-> <<>>]
    /\ pc = [p \in Procs |-> at]
    /\ call = [p \in Procs |-> NoCall]
    /\ rwl = [writer |-> None, readers |-> {}]
    /\ closerPc = "idle"
    /\ closeReturned = FALSE
    /\ afterClose = [p \in Procs |-> FALSE]
    /\ tmp = [p \in Procs |-> NoLocals]
    /\ engineRet = [p \in Procs |-> nil]
    /\ nops = 0

\* NewStore().SetStoreEngine(...)
Init ==
    /\ \E snap \in Snapshots :
          \E seedOrder \in Orders(DOMAIN CountMonitors(snap.users)) :
              SetStoreEngine(snap, seedOrder)
    /\ NewStore("idle")
    /\ durable = NotTracked

Next ==
    \/ \E p \in SeqProcs, u \in Usernames, old \in Passwords, new \in Passwords :
          UpdatePassword(p, u, old, new)
    \/ \E p \in SeqProcs, u \in Usernames, pw \in Passwords : AddUser(p, u, pw)
    \/ \E p \in SeqProcs, u \in Usernames, s \in ServerNames :
          DeleteMonitorServer(p, u, s)
    \/ \E p \in SeqProcs, u \in Usernames, s \in ServerNames :
          AddMonitorServer(p, u, s)
    \/ \E p \in SeqProcs, s \in ServerNames, l \in Locations,
          t \in Times, g \in Pings :
          AppendPingRet(p, s, l, PingRet(t, g))
    \/ \E p \in SeqProcs : Return(p)
    \/ Close
    \/ ReceiveAdd(MaxOps)
    \/ ReceiveKick(MaxOps)

Spec == Init /\ [][Next]_vars

\* the same store, in a run that keeps track of what the engine holds: at
\* bind time, the snapshot it has just returned from Init()
InitDurable ==
    /\ \E snap \in Snapshots :
          \E seedOrder \in Orders(DOMAIN CountMonitors(snap.users)) :
              /\ SetStoreEngine(snap, seedOrder)
              /\ durable = [tracked |-> TRUE, users |-> snap.users,
                            servers |-> snap.servers]
    /\ NewStore("idle")

SpecDurable == InitDurable /\ [][Next]_vars

TypeOK ==
    /\ DOMAIN users \subseteq Usernames
    /\ DOMAIN allServers \subseteq ServerNames
    /\ DOMAIN servers \subseteq ServerNames
    /\ isClosed \in BOOLEAN
    /\ nops \in Nat

(* ============================ goroutines ============================== *)
(* A goroutine calls a handler and walks through do(): the isClosed test,  *)
(* acquire, the lock, the body, the unlock, release. The bodies of AddUser  *)
(* and DeleteMonitorServer are one step under the write lock; the body of  *)
(* AppendPingRet is one step per stage (find the max, pad, append); a body *)
(* under the read lock is one step per statement, since other readers run  *)
(* beside it.                                                              *)

\* the calls the goroutines of SpecConc make
ConcCalls ==
    {AddUserCall(u, "pw1") : u \in Usernames}
    \cup {UpdatePasswordCall(u, "pw1", "pw2") : u \in Usernames}
    \cup {AddMonitorServerCall(u, "srv1") : u \in Usernames}
    \cup {DeleteMonitorServerCall(u, "srv1") : u \in Usernames}
    \cup {AppendPingRetCall("srv1", l, PingRet("t2", "10")) : l \in Locations}

\* the handlers whose body runs in withWriteLock
WriteLocked == {"AddUser", "DeleteMonitorServer", "AppendPingRet"}

\* a step of goroutine p that touches nothing of the store but its own place
Moves(p, to) ==
    /\ pc' = [pc EXCEPT ![p] = to]
    /\ UNCHANGED <<users, servers, allServers, AddServerChan, KickServerChan,
                   chanCap, isClosed, closerPc, closeReturned, pushBalance,
                   engineRet, durable>>

\* p calls a handler
Invoke(p, c) ==
    /\ pc[p] = "idle"
    /\ nops < MaxConcOps
    /\ nops' = nops + 1
    /\ call' = [call EXCEPT ![p] = c]
    /\ afterClose' = [afterClose EXCEPT ![p] = closeReturned]
    /\ Moves(p, "check")
    /\ UNCHANGED <<closeCounter, err, engineLog, rwl, tmp>>

\* mutant: do does not test isClosed
DoIsClosedNever(p) ==
    /\ pc[p] = "check"
    /\ Moves(p, "acquire")
    /\ UNCHANGED <<closeCounter, err, engineLog, call, rwl, afterClose, tmp, nops>>

\* do: if s.isClosed { return }
DoIsClosed(p) ==
    /\ pc[p] = "check"
    /\ Moves(p, IF isClosed THEN "done" ELSE "acquire")
    /\ UNCHANGED <<closeCounter, err, engineLog, call, rwl, afterClose, tmp, nops>>

\* acquire: atomic.AddInt64(s.closeCounter, 1)
Acquire(p) ==
    /\ pc[p] = "acquire"
    /\ closeCounter' = closeCounter + 1
    /\ Moves(p, "lock")
    /\ UNCHANGED <<err, engineLog, call, rwl, afterClose, tmp, nops>>

\* mutant: the lock is taken whoever holds it
LockStoreNoExclusion(p) ==
    /\ pc[p] = "lock"
    /\ rwl' = IF call[p].op \in WriteLocked
              THEN [rwl EXCEPT !.writer = p]
              ELSE [rwl EXCEPT !.readers = @ \cup {p}]
    /\ Moves(p, "body")
    /\ UNCHANGED <<closeCounter, err, engineLog, call, afterClose, tmp, nops>>

\* withWriteLock: s.rwl.Lock();  withReadLock: s.rwl.RLock()
LockStore(p) ==
    /\ pc[p] = "lock"
    /\ rwl.writer = None
    /\ IF call[p].op \in WriteLocked
       THEN /\ rwl.readers = {}
            /\ rwl' = [rwl EXCEPT !.writer = p]
       ELSE rwl' = [rwl EXCEPT !.readers = @ \cup {p}]
    /\ Moves(p, "body")
    /\ UNCHANGED <<closeCounter, err, engineLog, call, afterClose, tmp, nops>>

\* the body of call c of AddUser or DeleteMonitorServer
WriteLockedOutcome(c, werr) ==
    CASE c.op = "AddUser" ->
            AddUserBody(users, servers, allServers, c.username, c.password, werr)
      [] c.op = "DeleteMonitorServer" ->
            DeleteMonitorServerBody(users, servers, allServers,
                                    c.username, c.server, werr)

\* AddUser, DeleteMonitorServer: the closure under the write lock
WriteLockedBody(p) ==
    /\ pc[p] = "body"
    /\ call[p].op \in {"AddUser", "DeleteMonitorServer"}
    /\ rwl.writer = p
    /\ \E werr \in EngineResults :
          \E o \in {WriteLockedOutcome(call[p], werr)} : Commit(p, o, werr)
    /\ pc' = [pc EXCEPT ![p] = "unlock"]
    /\ UNCHANGED <<chanCap, closeCounter, isClosed, call, rwl, closerPc,
                   closeReturned, afterClose, tmp, nops>>

\* a step of the body of AppendPingRet of p: servers, err and the locals as
\* given
AppendStep(p, to, sv, e, locals) ==
    /\ servers' = sv
    /\ err' = [err EXCEPT ![p] = e]
    /\ tmp' = [tmp EXCEPT ![p] = locals]
    /\ pc' = [pc EXCEPT ![p] = to]
    /\ UNCHANGED <<users, allServers, AddServerChan, KickServerChan, chanCap,
                   closeCounter, isClosed, call, rwl, closerPc, closeReturned,
                   afterClose, pushBalance, nops>>

\* AppendPingRet: the allServers test, the two make()s and the "find the max"
\* loop; maxLength and maxLocation are kept for the next statement
ApFind(p) ==
    /\ pc[p] = "body"
    /\ call[p].op = "AppendPingRet"
    /\ LET server == call[p].server
           location == call[p].location
           sv1 == IF server \in DOMAIN servers
                  THEN servers ELSE Put(servers, server, EmptyMap)
           locs == IF location \in DOMAIN sv1[server]
                   THEN sv1[server] ELSE Put(sv1[server], location, <<>>)
       IN IF Get(allServers, server) <= 0
          THEN AppendStep(p, "unlock", servers, ErrServerNotExist, tmp[p])
          ELSE \E order \in Orders(DOMAIN locs) :
                  \E found \in {FindMax(locs, order, 0, "")} :
                     AppendStep(p, "apPad", Put(sv1, server, locs), err[p],
                                [NoLocals EXCEPT !.maxLength = found.maxLength,
                                                 !.maxLocation = found.maxLocation])
    /\ UNCHANGED <<engineLog, engineRet, durable>>

\* AppendPingRet: if maxLength != 0 { ... } padPrs = append(padPrs, pr)
ApPad(p) ==
    /\ pc[p] = "apPad"
    /\ AppendStep(p, "apAppend", servers, err[p],
                  [NoLocals EXCEPT !.padPrs =
                      PadPrs(servers[call[p].server], call[p].location,
                             call[p].pr, tmp[p].maxLength, tmp[p].maxLocation)])
    /\ UNCHANGED <<engineLog, engineRet, durable>>

\* AppendPingRet: the append of padPrs and err = BatchWritePingRets(...)
ApAppend(p) ==
    /\ pc[p] = "apAppend"
    /\ LET server == call[p].server
           location == call[p].location
           calls == <<BatchWriteCall(server, location, tmp[p].padPrs)>>
       IN \E werr \in EngineResults :
             /\ AppendStep(p, "unlock",
                           [servers EXCEPT ![server][location] =
                                               @ \o tmp[p].padPrs],
                           werr, NoLocals)
             /\ engineLog' = [engineLog EXCEPT ![p] = calls]
             /\ engineRet' = [engineRet EXCEPT ![p] = werr]
             /\ durable' = Persist(durable, calls, werr)

\* a step of the body of p under the read lock: the maps and err as given
ReadLockedStep(p, to, us, al, e, calls) ==
    /\ p \in rwl.readers
    /\ users' = us
    /\ allServers' = al
    /\ err' = [err EXCEPT ![p] = e]
    /\ engineLog' = [engineLog EXCEPT ![p] = engineLog[p] \o calls]
    /\ engineRet' = [engineRet EXCEPT ![p] = IF calls = <<>> THEN @ ELSE e]
    /\ durable' = Persist(durable, calls, e)
    /\ pc' = [pc EXCEPT ![p] = to]
    /\ UNCHANGED <<servers, chanCap, closeCounter, isClosed, call, rwl,
                   closerPc, closeReturned, afterClose, nops>>

\* UpdatePassword: the user lookup and the password test
UpdLookup(p) ==
    /\ pc[p] = "body"
    /\ call[p].op = "UpdatePassword"
    /\ IF call[p].username \notin DOMAIN users
       THEN ReadLockedStep(p, "unlock", users, allServers, err[p], <<>>)
       ELSE IF users[call[p].username].Password # call[p].oldpassword
       THEN ReadLockedStep(p, "unlock", users, allServers,
                           _ERROR_INCORRECT_PASSWORD, <<>>)
       ELSE ReadLockedStep(p, "updSet", users, allServers, err[p], <<>>)
    /\ UNCHANGED <<AddServerChan, KickServerChan, pushBalance, tmp>>

\* UpdatePassword: u.Password = newpassword
UpdSet(p) ==
    /\ pc[p] = "updSet"
    /\ ReadLockedStep(p, "updWrite",
                      [users EXCEPT ![call[p].username].Password = call[p].newpassword],
                      allServers, err[p], <<>>)
    /\ UNCHANGED <<AddServerChan, KickServerChan, pushBalance, tmp>>

\* UpdatePassword, AddMonitorServer: err = s.storeEngine.WriteUser(username, u)
WriteUserStep(p) ==
    /\ pc[p] \in {"updWrite", "addWrite"}
    /\ \E werr \in EngineResults :
          ReadLockedStep(p, "unlock", users, allServers, werr,
                         <<WriteUserCall(call[p].username, users[call[p].username])>>)
    /\ UNCHANGED <<AddServerChan, KickServerChan, pushBalance, tmp>>

\* AddMonitorServer: the user lookup and the already-monitoring test
AddLookup(p) ==
    /\ pc[p] = "body"
    /\ call[p].op = "AddMonitorServer"
    /\ IF call[p].username \notin DOMAIN users
       THEN ReadLockedStep(p, "unlock", users, allServers, ErrUserNotExistAdd, <<>>)
       ELSE IF call[p].server \in users[call[p].username].MonitorServers
       THEN ReadLockedStep(p, "unlock", users, allServers, ErrAlreadyMonitoring, <<>>)
       ELSE ReadLockedStep(p, "addSet", users, allServers, err[p], <<>>)
    /\ UNCHANGED <<AddServerChan, KickServerChan, pushBalance, tmp>>

\* AddMonitorServer: u.MonitorServers[server] = true
AddSet(p) ==
    /\ pc[p] = "addSet"
    /\ ReadLockedStep(p, "addLook",
                      [users EXCEPT ![call[p].username].MonitorServers =
                                        @ \cup {call[p].server}],
                      allServers, err[p], <<>>)
    /\ UNCHANGED <<AddServerChan, KickServerChan, pushBalance, tmp>>

\* AddMonitorServer: if _, ok := s.allServers[server]; !ok
AddLook(p) ==
    /\ pc[p] = "addLook"
    /\ ReadLockedStep(p, IF call[p].server \notin DOMAIN allServers
                         THEN "addPush" ELSE "addIncR",
                      users, allServers, err[p], <<>>)
    /\ UNCHANGED <<AddServerChan, KickServerChan, pushBalance, tmp>>

\* AddMonitorServer: s.AddServerChan <- server
AddPush(p) ==
    /\ pc[p] = "addPush"
    /\ Len(AddServerChan) < chanCap
    /\ AddServerChan' = Append(AddServerChan, call[p].server)
    /\ pushBalance' = [pushBalance EXCEPT ![call[p].server] = @ + 1]
    /\ ReadLockedStep(p, "addIncR", users, allServers, err[p], <<>>)
    /\ UNCHANGED <<KickServerChan, tmp>>

\* AddMonitorServer: s.allServers[server]++, the read of the count
AddIncRead(p) ==
    /\ pc[p] = "addIncR"
    /\ tmp' = [tmp EXCEPT ![p] =
                  [NoLocals EXCEPT !.count = Get(allServers, call[p].server)]]
    /\ ReadLockedStep(p, "addIncW", users, allServers, err[p], <<>>)
    /\ UNCHANGED <<AddServerChan, KickServerChan, pushBalance>>

\* AddMonitorServer: s.allServers[server]++, the write of the count
AddIncWrite(p) ==
    /\ pc[p] = "addIncW"
    /\ tmp' = [tmp EXCEPT ![p] = NoLocals]
    /\ ReadLockedStep(p, "addWrite", users,
                      Put(allServers, call[p].server, tmp[p].count + 1), err[p], <<>>)
    /\ UNCHANGED <<AddServerChan, KickServerChan, pushBalance>>

\* defer s.rwl.Unlock() / defer s.rwl.RUnlock()
UnlockStore(p) ==
    /\ pc[p] = "unlock"
    /\ rwl' = IF rwl.writer = p
              THEN [rwl EXCEPT !.writer = None]
              ELSE [rwl EXCEPT !.readers = @ \ {p}]
    /\ Moves(p, "release")
    /\ UNCHANGED <<closeCounter, err, engineLog, call, afterClose, tmp, nops>>

\* mutant: release leaves the counter as it is
ReleaseNoDecrement(p) ==
    /\ pc[p] = "release"
    /\ Moves(p, "done")
    /\ UNCHANGED <<closeCounter, err, engineLog, call, rwl, afterClose, tmp, nops>>

\* release: atomic.AddInt64(s.closeCounter, -1)
Release(p) ==
    /\ pc[p] = "release"
    /\ closeCounter' = closeCounter - 1
    /\ Moves(p, "done")
    /\ UNCHANGED <<err, engineLog, call, rwl, afterClose, tmp, nops>>

\* a step of the goroutine in Close
CloseMoves(to) ==
    /\ closerPc' = to
    /\ UNCHANGED <<users, servers, allServers, AddServerChan, KickServerChan,
                   chanCap, closeCounter, err, engineLog, engineRet, durable,
                   pc, call, rwl, afterClose, tmp, pushBalance>>

\* Close is called
CloseCall ==
    /\ closerPc = "idle"
    /\ nops < MaxConcOps
    /\ nops' = nops + 1
    /\ CloseMoves("check")
    /\ UNCHANGED <<isClosed, closeReturned>>

\* Close: if s.isClosed { return }
CloseIsClosed ==
    /\ closerPc = "check"
    /\ CloseMoves(IF isClosed THEN "idle" ELSE "spin")
    /\ closeReturned' = (closeReturned \/ isClosed)
    /\ UNCHANGED <<isClosed, nops>>

\* Close: the loop is left when the counter is read as not above zero
CloseSpin ==
    /\ closerPc = "spin"
    /\ ~(closeCounter > 0)
    /\ CloseMoves("set")
    /\ UNCHANGED <<isClosed, closeReturned, nops>>

\* Close: s.isClosed = true
CloseSet ==
    /\ closerPc = "set"
    /\ isClosed' = TRUE
    /\ CloseMoves("return")
    /\ UNCHANGED <<closeReturned, nops>>

\* Close returns
CloseReturn ==
    /\ closerPc = "return"
    /\ closeReturned' = TRUE
    /\ CloseMoves("idle")
    /\ UNCHANGED <<isClosed, nops>>

NextConc ==
    \/ \E p \in Procs, c \in ConcCalls : Invoke(p, c)
    \/ \E p \in Procs : DoIsClosed(p)
    \/ \E p \in Procs : Acquire(p)
    \/ \E p \in Procs : LockStore(p)
    \/ \E p \in Procs : WriteLockedBody(p)
    \/ \E p \in Procs : ApFind(p)
    \/ \E p \in Procs : ApPad(p)
    \/ \E p \in Procs : ApAppend(p)
    \/ \E p \in Procs : UpdLookup(p)
    \/ \E p \in Procs : UpdSet(p)
    \/ \E p \in Procs : WriteUserStep(p)
    \/ \E p \in Procs : AddLookup(p)
    \/ \E p \in Procs : AddSet(p)
    \/ \E p \in Procs : AddLook(p)
    \/ \E p \in Procs : AddPush(p)
    \/ \E p \in Procs : AddIncRead(p)
    \/ \E p \in Procs : AddIncWrite(p)
    \/ \E p \in Procs : UnlockStore(p)
    \/ \E p \in Procs : Release(p)
    \/ \E p \in Procs : Return(p)
    \/ CloseCall
    \/ CloseIsClosed
    \/ CloseSpin
    \/ CloseSet
    \/ CloseReturn
    \/ ReceiveAdd(MaxConcOps)
    \/ ReceiveKick(MaxConcOps)

SpecConc == Init /\ [][NextConc]_vars

\* a step of the call of goroutine p, whatever the handler
GoStep(p) ==
    \/ DoIsClosed(p)
    \/ Acquire(p)
    \/ LockStore(p)
    \/ WriteLockedBody(p)
    \/ ApFind(p)
    \/ ApPad(p)
    \/ ApAppend(p)
    \/ UpdLookup(p)
    \/ UpdSet(p)
    \/ WriteUserStep(p)
    \/ AddLookup(p)
    \/ AddSet(p)
    \/ AddLook(p)
    \/ AddPush(p)
    \/ AddIncRead(p)
    \/ AddIncWrite(p)
    \/ UnlockStore(p)
    \/ Release(p)
    \/ Return(p)

\* a step of Close once it is called
CloseStep == CloseIsClosed \/ CloseSpin \/ CloseSet \/ CloseReturn

\* the calls in flight around a call of Close
LiveCalls ==
    { UpdatePasswordCall("alice", "pw1", "pw2"),
      AddMonitorServerCall("alice", "srv2"),
      DeleteMonitorServerCall("alice", "srv1"),
      AppendPingRetCall("srv1", "us", PingRet("t2", "10")) }

\* a store bound to the snapshot in which alice alone monitors srv1
InitLive == Init /\ DOMAIN users = {"alice"}

NextLive ==
    \/ \E p \in Procs, c \in LiveCalls : Invoke(p, c)
    \/ \E p \in Procs : GoStep(p)
    \/ CloseCall
    \/ CloseStep
    \/ ReceiveAdd(MaxConcOps)
    \/ ReceiveKick(MaxConcOps)

\* the goroutines under a fair scheduler: a goroutine that can go on does,
\* Close included; nothing obliges a caller to call or the consumer to
\* receive
SpecLive ==
    /\ InitLive
    /\ [][NextLive]_vars
    /\ \A p \in Procs : WF_vars(GoStep(p))
    /\ WF_vars(CloseStep)

(* ======================== binding, step by step ======================= *)
(* SetStoreEngine as the steps of its code, for snapshots of up to          *)
(* MaxLoaded servers: the load and the make of AddServerChan, one step per  *)
(* push of the seeding loop, the make of KickServerChan.                    *)

\* the name of the i-th server of a large snapshot
ServerName(i) == "srv" \o ToString(i)

\* the numbers of servers of the snapshots loaded: around 0 and around the
\* floor of the channel capacity
LoadedSizes == {0, 1, 2, _MIN_LEN_SERVER_CHAN - 1, _MIN_LEN_SERVER_CHAN, MaxLoaded}

\* a snapshot of n servers, all monitored by alice; bob monitors none
Loaded(n) ==
    [users |-> [u \in Usernames |->
                   IF u = "alice" THEN User("pw1", {ServerName(i) : i \in 1..n})
                                  ELSE User("pw1", {})],
     servers |-> EmptyMap]

\* the servers the seeding loop has not visited yet
Unseeded == {s \in DOMAIN allServers : \A i \in 1..Len(AddServerChan) : AddServerChan[i] # s}

\* the servers the range loop may visit next: any of them in a small map,
\* the next by number in a large one
RangeNext ==
    IF Cardinality(DOMAIN allServers) <= 2
    THEN Unseeded
    ELSE {ServerName(Len(AddServerChan) + 1)} \cap DOMAIN allServers

\* a step of SetStoreEngine: the goroutines are not started yet
BindMoves(to) ==
    /\ pc' = [p \in Procs |-> to]
    /\ UNCHANGED <<closeCounter, isClosed, err, engineLog, engineRet, durable,
                   call, rwl, closerPc, closeReturned, afterClose, tmp, nops>>

\* SetStoreEngine: s.servers, s.users, s.allServers = s.storeEngine.Init()
\* and s.AddServerChan = make(chan string, l)
SetStoreEngineLoad(n) ==
    /\ \A p \in Procs : pc[p] = "new"
    /\ users' = Loaded(n).users
    /\ servers' = Loaded(n).servers
    /\ allServers' = CountMonitors(Loaded(n).users)
    /\ chanCap' = ChanLen(Cardinality(DOMAIN allServers'))
    /\ AddServerChan' = <<>>
    /\ BindMoves("seed")
    /\ UNCHANGED <<KickServerChan, pushBalance>>

\* SetStoreEngine: s.AddServerChan <- server, for the next server of the loop
SetStoreEngineSeed ==
    /\ \A p \in Procs : pc[p] = "seed"
    /\ Len(AddServerChan) < chanCap
    /\ \E server \in RangeNext :
          /\ AddServerChan' = Append(AddServerChan, server)
          /\ pushBalance' = [s \in ServerNames |->
                                pushBalance[s] + IF s = server THEN 1 ELSE 0]
    /\ BindMoves("seed")
    /\ UNCHANGED <<users, servers, allServers, KickServerChan, chanCap>>

\* SetStoreEngine: the loop is over; s.KickServerChan = make(chan string, l)
SetStoreEngineReturn ==
    /\ \A p \in Procs : pc[p] = "seed"
    /\ Len(AddServerChan) = Cardinality(DOMAIN allServers)
    /\ KickServerChan' = <<>>
    /\ BindMoves("idle")
    /\ UNCHANGED <<users, servers, allServers, AddServerChan, chanCap,
                   pushBalance>>

\* NewStore(), before SetStoreEngine
InitBind ==
    /\ users = EmptyMap
    /\ servers = EmptyMap
    /\ allServers = EmptyMap
    /\ AddServerChan = <<>>
    /\ KickServerChan = <<>>
    /\ chanCap = 0
    /\ pushBalance = [s \in ServerNames |-> 0]
    /\ NewStore("new")
    /\ durable = NotTracked

NextBind ==
    \/ \E n \in LoadedSizes : SetStoreEngineLoad(n)
    \/ SetStoreEngineSeed
    \/ SetStoreEngineReturn

SpecBind == InitBind /\ [][NextBind]_vars

(* ================== goroutines and a consumer that stopped ============= *)
(* A store bound to a snapshot of Loaded, whose channels nobody receives   *)
(* from, and goroutines that subscribe to a server nobody monitors.        *)

StallCalls == {AddMonitorServerCall(u, ServerName(MaxLoaded + 1)) : u \in Usernames}

InitStall ==
    /\ \E n \in LoadedSizes :
          SetStoreEngine(Loaded(n), [i \in 1..n |-> ServerName(i)])
    /\ NewStore("idle")
    /\ durable = NotTracked

\* a step of the call of p
CallStep(p) ==
    \/ DoIsClosed(p)
    \/ Acquire(p)
    \/ LockStore(p)
    \/ AddLookup(p)
    \/ AddSet(p)
    \/ AddLook(p)
    \/ AddPush(p)
    \/ AddIncRead(p)
    \/ AddIncWrite(p)
    \/ WriteUserStep(p)
    \/ UnlockStore(p)
    \/ Release(p)
    \/ Return(p)

NextStall ==
    \/ \E p \in Procs, c \in StallCalls : Invoke(p, c)
    \/ \E p \in Procs : CallStep(p)

\* every goroutine that can take a step of its call takes one
SpecStall ==
    InitStall /\ [][NextStall]_vars /\ \A p \in Procs : WF_vars(CallStep(p))

(* ===================== what the steps of a run show ==================== *)

\* what a step appended to a channel queue
Pushed(before, after) ==
    IF Len(after) > Len(before)
    THEN SubSeq(after, Len(before) + 1, Len(after))
    ELSE <<>>

\* number of times this step pushed s to AddServerChan / KickServerChan
AddPushes(s) == Count(Pushed(AddServerChan, AddServerChan'), s)
KickPushes(s) == Count(Pushed(KickServerChan, KickServerChan'), s)

\* this step is the call c of p, from its invocation to its return
Called(p, c) == pc[p] = "idle" /\ pc'[p] = "done" /\ call'[p] = c

NoOperationInProgress == \A p \in Procs : pc[p] \in {"idle", "done"}

(* ================================ C1 ================================== *)
\* C1: in every state of a run of completed calls, for every server s,
\* allServers[s] (0 when absent) is the number of users whose MonitorServers
\* contains s.
C1_RefCountInvariant ==
    \A s \in ServerNames : Get(allServers, s) = RefCount(users, s)

\* srv2 gained a second monitor and srv1 lost both of its monitors
C1_Witness ==
    /\ Get(allServers, "srv2") = 2
    /\ "srv1" \notin DOMAIN allServers
    /\ RefCount(users, "srv2") = 2

(* ================================ C2 ================================== *)

\* where a goroutine is while the closure f of do(f) runs
BodyPcs == {"lock", "body", "apPad", "apAppend", "updSet", "updWrite",
            "addSet", "addLook", "addPush", "addIncR", "addIncW", "addWrite",
            "unlock"}

\* C2: once a call of Close has returned, no mutating operation is running
\* its body, whatever the interleaving of Close with the calls.
C2_CloseIsFence ==
    closeReturned => \A p \in Procs : pc[p] \notin BodyPcs

(* ================================ C3 ================================== *)
\* C3: every step of a call made after Close has returned leaves users,
\* servers, allServers, AddServerChan and KickServerChan unchanged, makes no
\* engine call and leaves err nil; the call goes from the isClosed test of do
\* straight to its return.
C3_NoOpAfterClose ==
    [][\A p \in Procs :
          (afterClose'[p] /\ pc'[p] # pc[p]) =>
              /\ UNCHANGED <<users, servers, allServers,
                             AddServerChan, KickServerChan>>
              /\ engineLog'[p] = <<>>
              /\ err'[p] = nil
              /\ pc'[p] \in {"check", "done"}]_vars

\* an AddUser of a fresh username, called after Close returned, has returned
C3_Witness ==
    \E p \in Procs :
        /\ afterClose[p] /\ pc[p] = "done"
        /\ call[p].op = "AddUser"
        /\ call[p].username \notin DOMAIN users
        /\ err[p] = nil /\ engineLog[p] = <<>>

(* ================================ C4 ================================== *)
\* C4 (as amended): every step pushes s to AddServerChan exactly once when
\* it takes s's reference count from absent/zero to positive and never
\* otherwise; an AddMonitorServer on a store that is not closed, when it
\* returns no error, pushed s iff s had no allServers entry before the call,
\* and when it fails for an unknown user or an already monitored server it
\* pushed nothing.
C4_AddPushPerFirstMonitor ==
    [][/\ \A s \in ServerNames :
            AddPushes(s) = IF Get(allServers, s) <= 0 /\ Get(allServers', s) > 0
                           THEN 1 ELSE 0
       /\ \A p \in SeqProcs, u \in Usernames, s \in ServerNames :
            (~isClosed /\ Called(p, AddMonitorServerCall(u, s))) =>
                /\ err'[p] = nil => (AddPushes(s) = 1 <=> s \notin DOMAIN allServers)
                /\ err'[p] \in {ErrUserNotExistAdd, ErrAlreadyMonitoring} =>
                       \A x \in ServerNames : AddPushes(x) = 0]_vars

\* alice, monitoring srv1 alone, has just subscribed to srv2 and srv2 was pushed
C4_Witness ==
    /\ pc["p1"] = "done" /\ err["p1"] = nil /\ ~isClosed
    /\ DOMAIN users = {"alice"}
    /\ users["alice"].MonitorServers = {"srv1", "srv2"}
    /\ engineLog["p1"] = <<WriteUserCall("alice", users["alice"])>>
    /\ AddServerChan = <<"srv1", "srv2">>
    /\ Get(allServers, "srv2") = 1

\* C4 as stated: the same of every AddMonitorServer, closed store or not.
C4_Original ==
    [][/\ \A s \in ServerNames :
            AddPushes(s) = IF Get(allServers, s) <= 0 /\ Get(allServers', s) > 0
                           THEN 1 ELSE 0
       /\ \A p \in SeqProcs, u \in Usernames, s \in ServerNames :
            Called(p, AddMonitorServerCall(u, s)) =>
                /\ err'[p] = nil => (AddPushes(s) = 1 <=> s \notin DOMAIN allServers)
                /\ err'[p] \in {ErrUserNotExistAdd, ErrAlreadyMonitoring} =>
                       \A x \in ServerNames : AddPushes(x) = 0]_vars

(* ================================ C5 ================================== *)
\* C5: every step pushes s to KickServerChan exactly once when it takes s's
\* reference count from positive to zero or below and never otherwise (a
\* DeleteMonitorServer that removes nothing from the monitor set pushes
\* nothing), and right after a push s has no entry in allServers.
C5_KickPushPerLastMonitor ==
    [][\A s \in ServerNames :
          /\ KickPushes(s) = IF Get(allServers, s) > 0 /\ Get(allServers', s) <= 0
                             THEN 1 ELSE 0
          /\ KickPushes(s) > 0 => s \notin DOMAIN allServers']_vars

(* ================================ C6 ================================== *)
\* C6: whenever no operation is in progress, for every server s the pushes
\* of s to AddServerChan (seeding included) minus the pushes of s to
\* KickServerChan are 1 if s has an entry in allServers and 0 otherwise.
C6_PushesBalanced ==
    NoOperationInProgress =>
        \A s \in ServerNames :
            pushBalance[s] = IF s \in DOMAIN allServers THEN 1 ELSE 0

(* ============================ C7 and C8 =============================== *)

\* the sequence stored for a location, empty when there is none
SeqOf(sv, server, location) ==
    IF server \in DOMAIN sv /\ location \in DOMAIN sv[server]
    THEN sv[server][location]
    ELSE <<>>

LocsOf(sv, server) == IF server \in DOMAIN sv THEN DOMAIN sv[server] ELSE {}

\* the greatest location length of a server, 0 when it has no location
MaxLengthOf(sv, server) ==
    LET ls == {Len(sv[server][l]) : l \in LocsOf(sv, server)} \cup {0}
    IN CHOOSE n \in ls : \A k \in ls : k <= n

\* the pad buffer C7 describes, for one choice of the longest location
PadBufferFor(sv, server, location, pr, maxLocation) ==
    LET oldLen == Len(SeqOf(sv, server, location))
        maxLength == MaxLengthOf(sv, server)
        last == sv[server][maxLocation][maxLength]
        m == IF maxLength > 0 /\ last.Time = pr.Time THEN maxLength - 1 ELSE maxLength
        n == IF m > oldLen THEN m - oldLen ELSE 0
    IN [i \in 1..n |-> [Time |-> sv[server][maxLocation][oldLen + i].Time,
                        Ping |-> "0.000"]] \o <<pr>>

PadBuffers(sv, server, location, pr) ==
    IF MaxLengthOf(sv, server) = 0
    THEN {<<pr>>}
    ELSE {PadBufferFor(sv, server, location, pr, ml) :
             ml \in {l \in LocsOf(sv, server) :
                        Len(sv[server][l]) = MaxLengthOf(sv, server)}}

\* a location of server other than location that holds exactly one sample,
\* taken at another time than pr, and no other location
OneSiblingSample(sv, server, location, pr) ==
    \E l2 \in Locations \ {location} :
        /\ LocsOf(sv, server) = {l2}
        /\ Len(sv[server][l2]) = 1
        /\ sv[server][l2][1].Time # pr.Time

\* C7 (as amended): an AppendPingRet(server, location, pr) on a store that is
\* not closed, when it returns no error, appended to the location exactly
\* the pad buffer P of the claim (placeholders for the indexes oldLen..m-1 of
\* a longest location, then pr) and called BatchWritePingRets once, with
\* (server, location, P); a first sample of a server is not padded, and a
\* first sample of a second location whose sibling holds one sample of
\* another time has a pad buffer of length 2.
C7_PadBufferAppended ==
    [][\A p \in SeqProcs, s \in ServerNames, l \in Locations,
          t \in Times, g \in Pings :
          (/\ ~isClosed
           /\ Called(p, AppendPingRetCall(s, l, PingRet(t, g)))
           /\ err'[p] = nil) =>
              /\ \E P \in PadBuffers(servers, s, l, PingRet(t, g)) :
                    /\ SeqOf(servers', s, l) = SeqOf(servers, s, l) \o P
                    /\ engineLog'[p] = <<BatchWriteCall(s, l, P)>>
              /\ LocsOf(servers, s) = {} =>
                    engineLog'[p] = <<BatchWriteCall(s, l, <<PingRet(t, g)>>)>>
              /\ OneSiblingSample(servers, s, l, PingRet(t, g)) =>
                    Len(engineLog'[p][1].prs) = 2]_vars

\* "us" got its first sample, at t2, while "eu" held one sample of t1
C7_Witness ==
    /\ pc["p1"] = "done" /\ err["p1"] = nil /\ ~isClosed
    /\ "srv1" \in DOMAIN servers
    /\ DOMAIN servers["srv1"] = {"eu", "us"}
    /\ Len(servers["srv1"]["eu"]) = 1
    /\ engineLog["p1"] =
          <<BatchWriteCall("srv1", "us",
                           <<PingRet("t1", "0.000"), PingRet("t2", "10")>>)>>
    /\ servers["srv1"]["us"] = <<PingRet("t1", "0.000"), PingRet("t2", "10")>>

\* C7 as stated: the same of every AppendPingRet that returns no error.
C7_Original ==
    [][\A p \in SeqProcs, s \in ServerNames, l \in Locations,
          t \in Times, g \in Pings :
          (/\ Called(p, AppendPingRetCall(s, l, PingRet(t, g)))
           /\ err'[p] = nil) =>
              \E P \in PadBuffers(servers, s, l, PingRet(t, g)) :
                  /\ SeqOf(servers', s, l) = SeqOf(servers, s, l) \o P
                  /\ engineLog'[p] = <<BatchWriteCall(s, l, P)>>]_vars

\* C8 (as amended): right after an AppendPingRet(server, location, pr) on a
\* store that is not closed that returns no error, the location's length is
\* L or L+1, L the greatest location length of the server before the call,
\* and no location of the server is longer than it.
C8_LengthAligned ==
    [][\A p \in SeqProcs, s \in ServerNames, l \in Locations,
          t \in Times, g \in Pings :
          (/\ ~isClosed
           /\ Called(p, AppendPingRetCall(s, l, PingRet(t, g)))
           /\ err'[p] = nil) =>
              /\ Len(SeqOf(servers', s, l)) \in
                    {MaxLengthOf(servers, s), MaxLengthOf(servers, s) + 1}
              /\ \A l2 \in LocsOf(servers', s) :
                    Len(servers'[s][l2]) <= Len(SeqOf(servers', s, l))]_vars

\* "us" was padded up to the length 2 of "eu", whose last sample has pr's time
C8_Witness ==
    /\ pc["p1"] = "done" /\ err["p1"] = nil /\ ~isClosed
    /\ "srv1" \in DOMAIN servers
    /\ DOMAIN servers["srv1"] = {"eu", "us"}
    /\ Len(servers["srv1"]["eu"]) = 2
    /\ Len(servers["srv1"]["us"]) = 2
    /\ engineLog["p1"] =
          <<BatchWriteCall("srv1", "us",
                           <<PingRet("t1", "0.000"), PingRet("t2", "10")>>)>>

\* C8 as stated: the same of every AppendPingRet that returns no error.
C8_Original ==
    [][\A p \in SeqProcs, s \in ServerNames, l \in Locations,
          t \in Times, g \in Pings :
          (/\ Called(p, AppendPingRetCall(s, l, PingRet(t, g)))
           /\ err'[p] = nil) =>
              Len(SeqOf(servers', s, l)) \in
                  {MaxLengthOf(servers, s), MaxLengthOf(servers, s) + 1}]_vars

(* ================================ C9 ================================== *)
\* C9 (as amended): an AppendPingRet(server, ...) on a store that is not
\* closed fails with the server-not-found error whenever allServers[server]
\* <= 0; then, and on a closed store too, it leaves servers, users,
\* allServers and both channels unchanged and makes no engine call; and a
\* step changes the samples of a server only while a user monitors it.
C9_UnmonitoredServerRejected ==
    [][/\ \A p \in SeqProcs, s \in ServerNames, l \in Locations,
             t \in Times, g \in Pings :
             (/\ Called(p, AppendPingRetCall(s, l, PingRet(t, g)))
              /\ Get(allServers, s) <= 0) =>
                 /\ ~isClosed => err'[p] = ErrServerNotExist
                 /\ UNCHANGED <<servers, users, allServers,
                                AddServerChan, KickServerChan>>
                 /\ engineLog'[p] = <<>>
       /\ \A s \in ServerNames :
             (\E l \in Locations : SeqOf(servers', s, l) # SeqOf(servers, s, l)) =>
                 RefCount(users, s) > 0]_vars

\* a sample for a server nobody monitors has just been refused
C9_Witness ==
    /\ pc["p1"] = "done" /\ err["p1"] = ErrServerNotExist /\ ~isClosed
    /\ engineLog["p1"] = <<>>
    /\ \E s \in ServerNames : s \notin DOMAIN allServers

\* C9 as stated: the error is returned whenever allServers[server] <= 0.
C9_Original ==
    [][\A p \in SeqProcs, s \in ServerNames, l \in Locations,
          t \in Times, g \in Pings :
          (/\ Called(p, AppendPingRetCall(s, l, PingRet(t, g)))
           /\ Get(allServers, s) <= 0) =>
              /\ err'[p] = ErrServerNotExist
              /\ UNCHANGED <<servers, users, allServers,
                             AddServerChan, KickServerChan>>
              /\ engineLog'[p] = <<>>]_vars

(* ================================ C10 ================================= *)
\* C10 (as amended): on a store that is not closed, AddUser(username,
\* password) on an existing username fails with the already-exists error,
\* leaves users, allServers, servers and both channels unchanged and makes no
\* engine call; on a fresh username it adds a user with that password and an
\* empty monitor set, changes nothing else, and calls WriteUser once, with
\* that user.
C10_AddUserRejectsDuplicates ==
    [][\A p \in SeqProcs, u \in Usernames, pw \in Passwords :
          (~isClosed /\ Called(p, AddUserCall(u, pw))) =>
              IF u \in DOMAIN users
              THEN /\ err'[p] = ErrUserAlreadyExist
                   /\ UNCHANGED <<users, allServers, servers,
                                  AddServerChan, KickServerChan>>
                   /\ engineLog'[p] = <<>>
              ELSE /\ DOMAIN users' = DOMAIN users \cup {u}
                   /\ users'[u] = [Password |-> pw, MonitorServers |-> {}]
                   /\ \A v \in DOMAIN users : users'[v] = users[v]
                   /\ UNCHANGED <<allServers, servers,
                                  AddServerChan, KickServerChan>>
                   /\ engineLog'[p] = <<WriteUserCall(u, users'[u])>>]_vars

\* an AddUser of an existing username has just been refused
C10_Witness ==
    /\ pc["p1"] = "done" /\ err["p1"] = ErrUserAlreadyExist /\ ~isClosed
    /\ engineLog["p1"] = <<>>
    /\ DOMAIN users # {}

\* C10 as stated: the same of every AddUser.
C10_Original ==
    [][\A p \in SeqProcs, u \in Usernames, pw \in Passwords :
          Called(p, AddUserCall(u, pw)) =>
              IF u \in DOMAIN users
              THEN /\ err'[p] = ErrUserAlreadyExist
                   /\ UNCHANGED <<users, allServers, servers,
                                  AddServerChan, KickServerChan>>
                   /\ engineLog'[p] = <<>>
              ELSE /\ DOMAIN users' = DOMAIN users \cup {u}
                   /\ users'[u] = [Password |-> pw, MonitorServers |-> {}]
                   /\ engineLog'[p] = <<WriteUserCall(u, users'[u])>>]_vars

(* ================================ C11 ================================= *)

\* where a goroutine is while its body runs, the lock held
InBodyPcs == {"body", "apPad", "apAppend", "updSet", "updWrite", "addSet",
              "addLook", "addPush", "addIncR", "addIncW", "addWrite"}

\* the next statement of p writes to users, a User, allServers or servers
Modifying(p) ==
    \/ pc[p] \in {"updSet", "addSet", "addIncW", "apAppend"}
    \/ pc[p] = "body" /\ call[p].op \in WriteLocked

\* C11: a goroutine about to modify the aggregate holds the write lock, and
\* no other goroutine is then inside its body, reading or modifying.
C11_WriterExclusivity ==
    \A p \in Procs :
        Modifying(p) =>
            /\ rwl.writer = p
            /\ \A q \in Procs \ {p} : pc[q] \notin InBodyPcs

(* ================================ C12 ================================= *)

HoldsLock(p) == p \in rwl.readers \/ rwl.writer = p

\* C12: whatever the capacity of the channels and whether or not anything
\* receives from them, a goroutine that holds the read or the write lock
\* eventually releases it.
C12_LockReleased ==
    \A p \in Procs : HoldsLock(p) ~> ~HoldsLock(p)

(* ================================ C13 ================================= *)
\* C13: the step of an AppendPingRet that appends has the effect of the
\* whole call run at once on the store as it is at that step: the sequences
\* of the server, the batch handed to the engine and the result are those of
\* AppendPingRet run alone, so the calls are as if run one at a time in the
\* order of their appends; and between the find-longest and the append of one
\* call no other goroutine is inside a body.
C13_AppendLinearizable ==
    [][\A p \in Procs :
          /\ (pc[p] = "apAppend" /\ pc'[p] = "unlock") =>
                \E werr \in EngineResults :
                   \E order \in Orders(LoopKeys(servers, call[p].server,
                                                call[p].location)) :
                      \E o \in {AppendPingRetBody(users, servers, allServers,
                                                  call[p].server, call[p].location,
                                                  call[p].pr, order, werr)} :
                         /\ servers' = o.servers
                         /\ engineLog'[p] = o.calls
                         /\ err'[p] = o.err
          /\ pc[p] \in {"apPad", "apAppend"} =>
                \A q \in Procs \ {p} : pc[q] \notin InBodyPcs]_vars

\* a second AppendPingRet for srv1 has appended while the first, for another
\* location of srv1, has returned: "us" was padded against the grown "eu"
C13_Witness ==
    /\ pc["p1"] = "done" /\ call["p1"].op = "AppendPingRet"
    /\ pc["p2"] = "unlock" /\ call["p2"].op = "AppendPingRet"
    /\ call["p1"].location = "eu" /\ call["p2"].location = "us"
    /\ err["p1"] = nil /\ err["p2"] = nil
    /\ "srv1" \in DOMAIN servers
    /\ DOMAIN servers["srv1"] = {"eu", "us"}
    /\ Len(servers["srv1"]["eu"]) = 2
    /\ servers["srv1"]["us"] = <<PingRet("t1", "0.000"), PingRet("t2", "10")>>

(* ================================ C14 ================================= *)

IsPrefix(a, b) == Len(a) <= Len(b) /\ SubSeq(b, 1, Len(a)) = a

\* C14: no step removes, reorders or rewrites a stored sample: for every
\* server and location the sequence before a step is a prefix of the
\* sequence after it, so the sequence of any earlier state is a prefix of the
\* sequence of any later one.
C14_HistoryAppendOnly ==
    [][\A s \in ServerNames, l \in Locations :
          IsPrefix(SeqOf(servers, s, l), SeqOf(servers', s, l))]_vars

\* srv1 lost its last monitor, was kicked, and has been subscribed to again:
\* its samples are still there
C14_Witness ==
    /\ Count(KickServerChan, "srv1") = 1
    /\ Count(AddServerChan, "srv1") = 2
    /\ Get(allServers, "srv1") = 1
    /\ SeqOf(servers, "srv1", "eu") = <<PingRet("t1", "10")>>

(* ================================ C15 ================================= *)

\* this step is a call of p, from its invocation to its return
Returned(p) == pc[p] = "idle" /\ pc'[p] = "done"

\* the changes the call c of p makes in memory before its engine write are
\* there after the step
ChangesInPlace(p, c) ==
    CASE c.op = "AddUser" ->
            /\ c.username \notin DOMAIN users
            /\ c.username \in DOMAIN users'
            /\ users'[c.username].Password = c.password
      [] c.op = "UpdatePassword" ->
            /\ users[c.username].Password = c.oldpassword
            /\ users'[c.username].Password = c.newpassword
      [] c.op = "AddMonitorServer" ->
            /\ c.server \notin users[c.username].MonitorServers
            /\ c.server \in users'[c.username].MonitorServers
            /\ Get(allServers', c.server) = Get(allServers, c.server) + 1
            /\ c.server \notin DOMAIN allServers => AddPushes(c.server) = 1
      [] c.op = "DeleteMonitorServer" ->
            /\ c.server \notin users'[c.username].MonitorServers
            /\ c.server \in users[c.username].MonitorServers =>
                  /\ Get(allServers', c.server) = Get(allServers, c.server) - 1
                  /\ Get(allServers, c.server) = 1 =>
                        /\ KickPushes(c.server) = 1
                        /\ c.server \notin DOMAIN allServers'
      [] c.op = "AppendPingRet" ->
            /\ engineLog'[p][1].prs[Len(engineLog'[p][1].prs)] = c.pr
            /\ SeqOf(servers', c.server, c.location) =
                  SeqOf(servers, c.server, c.location) \o engineLog'[p][1].prs

\* C15: when the engine write of a call returns an error, the call returns
\* that error, and what the call changed in memory before the write (the new
\* user, the new password, the monitor set, the reference count, the channel
\* push, the appended samples) is in place after the call.
C15_FailureNotRolledBack ==
    [][\A p \in SeqProcs :
          (Returned(p) /\ engineRet'[p] # nil) =>
              /\ err'[p] = engineRet'[p]
              /\ Len(engineLog'[p]) = 1
              /\ ChangesInPlace(p, call'[p])]_vars

\* alice's subscription to srv2 failed in the engine: she monitors srv2, its
\* count is 1 and it was pushed
C15_Witness ==
    /\ pc["p1"] = "done"
    /\ call["p1"] = AddMonitorServerCall("alice", "srv2")
    /\ engineRet["p1"] = ErrEngine /\ err["p1"] = ErrEngine
    /\ "srv2" \in users["alice"].MonitorServers
    /\ Get(allServers, "srv2") = 1
    /\ Count(AddServerChan, "srv2") = 1

(* ================================ C16 ================================= *)

\* the seeding loop is at a push
Seeding == pc["p1"] = "seed" /\ Len(AddServerChan) < Cardinality(DOMAIN allServers)

\* C16: once SetStoreEngine has made the channels their capacity is the
\* greater of the number of loaded servers and 1024; no push of the seeding
\* loop finds AddServerChan full; and when SetStoreEngine has returned every
\* loaded server is in AddServerChan exactly once and KickServerChan is
\* empty.
C16_SeedingNeverBlocks ==
    LET n == Cardinality(DOMAIN allServers)
    IN /\ pc["p1"] # "new" => chanCap = IF n > 1024 THEN n ELSE 1024
       /\ Seeding => Len(AddServerChan) < chanCap
       /\ pc["p1"] = "idle" =>
             /\ Len(AddServerChan) = n
             /\ {AddServerChan[i] : i \in 1..n} = DOMAIN allServers
             /\ KickServerChan = <<>>

\* SetStoreEngine has returned from seeding MaxLoaded servers
C16_Witness ==
    /\ pc["p1"] = "idle"
    /\ Cardinality(DOMAIN allServers) = MaxLoaded
    /\ Len(AddServerChan) = MaxLoaded
    /\ chanCap >= MaxLoaded

(* ================================ C17 ================================= *)

\* the only calls of the run so far are AddMonitorServer("alice", "srv1") by
\* p1 and AddMonitorServer("bob", "srv1") by p2, both have come back from
\* their bodies, both found their user not monitoring srv1 and wrote it, and
\* the engine returned no error
BothSubscribed ==
    /\ nops = 2
    /\ pc["p1"] = "done" /\ call["p1"] = AddMonitorServerCall("alice", "srv1")
    /\ pc["p2"] = "done" /\ call["p2"] = AddMonitorServerCall("bob", "srv1")
    /\ \A p \in Procs : engineLog[p] # <<>> /\ engineRet[p] = nil

\* C17: when alice and bob subscribe at the same time to srv1, which has no
\* allServers entry, then once both calls are complete both have returned no
\* error, srv1 is in AddServerChan exactly once and allServers["srv1"] is 2.
C17_FirstSubscriptionOnce ==
    BothSubscribed =>
        /\ \A p \in Procs : err[p] = nil
        /\ Count(AddServerChan, "srv1") = 1
        /\ Get(allServers, "srv1") = 2

(* ================================ C18 ================================= *)
\* C18: under a fair scheduler, with the calls of a run finite in number, a
\* call of Close eventually returns with isClosed set; isClosed is set only
\* by Close at its assignment, and Close gets there only by reading the
\* counter as not above zero.
C18_CloseTerminates ==
    /\ (closerPc # "idle") ~> (closerPc = "idle" /\ isClosed /\ closeReturned)
    /\ [][(~isClosed /\ isClosed') => closerPc = "set"]_vars
    /\ [][(closerPc # "set" /\ closerPc' = "set") =>
             (closerPc = "spin" /\ closeCounter = 0)]_vars

\* Close was called with a call in flight and has returned after it
C18_Witness ==
    /\ closeReturned /\ isClosed /\ closerPc = "idle"
    /\ \E p \in Procs : pc[p] = "done" /\ ~afterClose[p] /\ engineLog[p] # <<>>
    /\ closeCounter = 0

(* ================================ C19 ================================= *)

\* the record of u in us as a set, empty when u is not in us
RecordOf(us, u) == IF u \in DOMAIN us THEN {us[u]} ELSE {}

\* the users whose record in memory is not the last record written, and the
\* locations whose samples in memory are not the batches written
DivergentUsers ==
    {u \in Usernames : RecordOf(users, u) # RecordOf(durable.users, u)}

DivergentLocations ==
    {sl \in ServerNames \X Locations :
        SeqOf(servers, sl[1], sl[2]) # SeqOf(durable.servers, sl[1], sl[2])}

\* C19: whenever no operation is in progress, users and servers differ from
\* what the engine has successfully written by at most the effect of one
\* failed engine write: at most one user record or one location's samples.
C19_BoundedDivergence ==
    NoOperationInProgress =>
        Cardinality(DivergentUsers) + Cardinality(DivergentLocations) <= 1

(* ================================ C20 ================================= *)
\* C20: on a store that is not closed, UpdatePassword(username, old, new)
\* returns the incorrect-password error, leaves the stored password as it is
\* and makes no engine call when old is not the stored password; and when it
\* returns no error, the engine having returned none, the user exists, its
\* password is new after the call and WriteUser was called once, for it.
C20_UpdatePasswordFaithful ==
    [][\A p \in SeqProcs, u \in Usernames, old \in Passwords, new \in Passwords :
          (~isClosed /\ Called(p, UpdatePasswordCall(u, old, new))) =>
              /\ (u \in DOMAIN users /\ users[u].Password # old) =>
                    /\ err'[p] = _ERROR_INCORRECT_PASSWORD
                    /\ users' = users
                    /\ engineLog'[p] = <<>>
              /\ (err'[p] = nil /\ engineRet'[p] = nil) =>
                    /\ u \in DOMAIN users'
                    /\ users'[u].Password = new
                    /\ engineLog'[p] = <<WriteUserCall(u, users'[u])>>]_vars

====
